---- MODULE Spec2Model ----
(***************************************************************************)
(* Chunked upload / download of large payloads over a ledger               *)
(* (ArtificerDAO/x402: LargeDataStorage, IQLabsAPI, PinocchioAdapter,      *)
(* PinocchioWriter, storage utilities).                                    *)
(*                                                                         *)
(* Spec          : LargeDataStorage.storeLargeData driving IQLabsAPI       *)
(*                 (signAndSendTransaction, signAndSendTransactionsParallel*)
(*                 signAndSendTransactionsSequential,                      *)
(*                 checkConfirmationStatus) against a ledger whose         *)
(*                 transactions are processed asynchronously.              *)
(* SpecDispatch  : the chunk dispatch alone, on a created session.          *)
(* SpecSetup     : the upload up to the end of the chunk dispatch.         *)
(* SpecPinocchio : PinocchioAdapter / PinocchioWriter storeData and        *)
(*                 readData at byte level (chunking, instruction layout,   *)
(*                 history scan, read-path decoding).                      *)
(***************************************************************************)
EXTENDS Integers, Sequences, FiniteSets, TLC

(***************************************************************************)
(* Bounds of the model (scaled-down sizes) and program constants.          *)
(***************************************************************************)
\* number of chunk transactions the session service returned (totalChunks)
NChunks == 2
\* batch size handed to signAndSendTransactionsParallel (the caller passes 10)
BatchSize == 1
\* polling rounds of one confirmation wait (the code polls 30 / 20 / 15 times)
MaxPolls == 2
\* signAndSendTransaction(transactionData, wallet, retries = 3)
SendRetries == 3
\* for (let attempt = 1; attempt <= 2 && toRetry.length > 0; attempt++)
ChunkRetryRounds == 2

ChunkIdx == 0 .. (NChunks - 1)

Steps == {"create", "init", "finalize"}

VARIABLES
    \* ---- ledger (external, asynchronous) ----
    txs,            \* chunk transactions ever submitted: [chunk, st]; a signature is its position
    storageExists,  \* the owner's storage account exists
    sessionStatus,  \* "none" | "active" | "finalized"
    abandoned,      \* per step: submitted transactions the client stopped polling, still pending
    landed,         \* per step: transactions of that step confirmed on the ledger
    \* ---- storeLargeData ----
    pc,             \* position of the upload call
    useSequential,  \* argument of storeLargeData
    hasInitTx,      \* session.initStorageTransaction is present
    signatures,     \* the signatures list of the StorageResult
    uploadError,    \* the error the call threw, or NoError
    initErr,        \* the error the storage-initialisation step threw, or NoError
    \* ---- signAndSendTransaction ----
    sst,            \* [attempt, cur, polls]: attempt number, current transaction's status, polls done
    \* ---- signAndSendTransactionsParallel / Sequential ----
    i,              \* loop cursor of the send loop
    batchSigs,      \* signatures of the batch being sent
    allSignatures,  \* allSignatures (parallel) / signatures (sequential)
    finalSignatures,
    toRetry,        \* indices returned as failed by the last confirmation call
    attempt,        \* retry round counter
    retrySignatures,
    rpos,           \* cursor of the retry send loop
    \* ---- checkConfirmationStatus ----
    chk,            \* [sigs, confirmed, polls]
    \* ---- history (observation only) ----
    observed,       \* signatures some confirmation call classified confirmed
    classFailed,    \* signatures some confirmation call returned as failed
    rechecked,      \* signatures whose status was evaluated again after being classified confirmed
    \* ---- PinocchioAdapter / PinocchioWriter ----
    impl,           \* "adapter" | "writer": the class whose storeData and readData run
    payload,        \* the data argument of storeData, as bytes
    compression,    \* the compression argument of storeData
    ppc,            \* position of the storeData call
    sessionId,      \* the generated session id
    finalData,      \* the buffer storeData chunks
    pidx,           \* loop cursor of the posting loop
    posted,         \* transactions recorded for the session address: [data, ok], oldest first
    account,        \* the account at the session address: "absent" | "active" | "finalized"
    totalChunks,    \* the total_chunks field of that account
    readResult,     \* outcome of the readData call, with what it saw
    \* LargeDataStorage.retrieveLargeData
    ret,            \* the retrieve call: position, arguments, loop counter, what it saw
    \* CogneeMemoryAdapter.storeMemory
    mem,            \* the storeMemory call: position, indexMemory calls made, index content
    \* OnChainVectorAdapter
    table,          \* the rows of the reference table
    vec,            \* the last createDataPoints call: arguments, table before it, outcome
    \* GraphQueryEngine
    gq,             \* the loaded graph and the last query with its result
    \* VectorSearchEngine
    vs              \* the vector cache and the last search with its result

ledgerVars == <<txs, storageExists, sessionStatus, abandoned, landed>>
callVars   == <<pc, useSequential, hasInitTx, signatures, uploadError, initErr>>
dispVars   == <<i, batchSigs, allSignatures, finalSignatures, toRetry, attempt,
                retrySignatures, rpos>>
histVars   == <<observed, classFailed, rechecked>>
pinVars    == <<impl, payload, compression, ppc, sessionId, finalData, pidx, posted, account,
                totalChunks, readResult>>
uploadVars == <<ledgerVars, callVars, sst, dispVars, chk, histVars>>
\* what a call of storeLargeData leaves alone
memVars    == <<mem>>
vecVars    == <<table, vec>>
libVars    == <<memVars, vecVars, gq, vs>>
otherVars  == <<pinVars, ret, libVars>>
vars == <<uploadVars, pinVars, ret, libVars>>

\* the retrieve call before it starts
RetNone == [pc |-> "idle", maxRetries |-> 0, attempt |-> 0, waits |-> 0, seen |-> <<>>,
            error |-> <<>>]

\* the storeMemory call before it starts
MemNone == [pc |-> "idle", emits |-> 0, indexed |-> FALSE, finalizedAtEmit |-> FALSE]

\* no createDataPoints call has been made
VecNone == [pc |-> "idle", collection |-> <<>>, dataPoints |-> <<>>, before |-> {}, wrote |-> <<>>]

\* no graph is loaded
GqNone ==
    [pc |-> "idle", nodes |-> <<>>, edges |-> <<>>, startNodeId |-> "", endNodeId |-> "",
     maxDepth |-> 0, relationshipFilter |-> [given |-> FALSE, names |-> {}],
     visited |-> {}, path |-> <<>>, componentCount |-> 0]

\* no vector is cached
VsNone ==
    [pc |-> "idle", nodeIdToVector |-> <<>>, queryVector |-> <<>>, limit |-> 0,
     threshold |-> [num |-> 0, den |-> 1], results |-> <<>>]

NoError == [kind |-> "none", code |-> "none", count |-> 0, named |-> {}]
SstIdle == [attempt |-> 1, cur |-> "none", polls |-> 0]
ChkIdle == [sigs |-> <<>>, confirmed |-> {}, polls |-> 0, erred |-> {}, queries |-> 0]

Range(s) == {s[k] : k \in 1 .. Len(s)}

(***************************************************************************)
(* Ledger: what the on-chain programs do with a transaction of a step.     *)
(***************************************************************************)
\* a transaction of the step can execute successfully in the current ledger state
OnChainOk(step) ==
    CASE step = "create"   -> sessionStatus = "none"
      [] step = "init"     -> ~storageExists
      [] step = "finalize" -> sessionStatus = "active"

\* the error the program returns when the step cannot execute:
\* a second storage initialisation fails with {"Custom":0}
OnChainErr(step) == IF step = "init" THEN "Custom0" ELSE "Other"

\* the state change a successfully executed transaction of the step makes.
\* After it no other transaction of the step can execute (OnChainOk stays false),
\* so the step's abandoned transactions are rejected: they leave the pending count.
Effect(step) ==
    /\ sessionStatus' = CASE step = "create"   -> "active"
                          [] step = "finalize" -> "finalized"
                          [] OTHER             -> sessionStatus
    /\ storageExists' = IF step = "init" THEN TRUE ELSE storageExists
    /\ landed' = [landed EXCEPT ![step] = @ + 1]
    /\ abandoned' = [abandoned EXCEPT ![step] = 0]

(***************************************************************************)
(* LargeDataStorage.storeLargeData: the steps around the chunk dispatch.   *)
(***************************************************************************)
\* which of the four substrings the catch block looks for occur in the message
\* of an error thrown by signAndSendTransaction: the message embeds
\* JSON.stringify(err) of a simulation or status error, and an
\* {"InstructionError":[n,{"Custom":0}]} contains  Custom":0
MsgNeedles(e) ==
    IF e.kind \in {"sim", "status"} /\ e.code = "Custom0" THEN {"Custom\":0"} ELSE {}

isAlreadyExistsSwallowAll(e) == TRUE

isAlreadyExists(e) ==
    \E n \in {"0x0", "Custom\":0", "already in use", "already exists"} : n \in MsgNeedles(e)

ChunkStart == IF useSequential THEN "s_send" ELSE "p_send"

\* signAndSendTransaction returned a signature for the step
StepSucceeded(step) ==
    /\ signatures' = Append(signatures, [k |-> step, id |-> 0])
    /\ pc' = CASE step = "create"   -> IF hasInitTx THEN "init" ELSE ChunkStart
               [] step = "init"     -> ChunkStart
               [] step = "finalize" -> "done"
    /\ sst' = SstIdle
    /\ UNCHANGED <<useSequential, hasInitTx, otherVars, uploadError, initErr>>

\* signAndSendTransaction threw e for the step: the catch blocks of storeLargeData
StepFailed(step, e) ==
    /\ sst' = SstIdle
    /\ IF step = "init" /\ isAlreadyExists(e)
         THEN /\ pc' = ChunkStart
              /\ uploadError' = uploadError
         ELSE /\ pc' = "failed"
              /\ uploadError' = [kind |-> step, code |-> e.code, count |-> 0, named |-> {}]
    /\ initErr' = IF step = "init"
                    THEN [kind |-> "init", code |-> e.code, count |-> 0, named |-> {}]
                    ELSE initErr
    /\ UNCHANGED <<useSequential, hasInitTx, otherVars, signatures>>

(***************************************************************************)
(* IQLabsAPI.signAndSendTransaction: up to SendRetries attempts, each      *)
(* simulate, send, then poll the signature's status.                       *)
(***************************************************************************)
SstError(kind, code) == [kind |-> kind, code |-> code]

\* the catch block of one attempt
AttemptFailed(step, e) ==
    IF sst.attempt = SendRetries
      THEN StepFailed(step, e)
      ELSE /\ sst' = [attempt |-> sst.attempt + 1, cur |-> "none", polls |-> 0]
           /\ UNCHANGED <<callVars, otherVars>>

\* simulateTransaction, then sendRawTransaction: an RPC call throws, the simulation
\* reports an error, or the transaction is sent
SimulateAndSend(step) ==
    /\ pc = step
    /\ sst.cur = "none"
    /\ \E out \in {"sim_err", "send_err", "sent"} :
         CASE out = "send_err" -> AttemptFailed(step, SstError("send", "none"))
           [] out = "sim_err"  ->
                AttemptFailed(step, SstError("sim", IF OnChainOk(step) THEN "Other"
                                                                       ELSE OnChainErr(step)))
           [] out = "sent"     -> /\ OnChainOk(step)
                                  /\ sst' = [sst EXCEPT !.cur = "pending", !.polls = 0]
                                  /\ UNCHANGED <<callVars, otherVars>>
    /\ UNCHANGED <<ledgerVars, dispVars, chk, histVars>>

\* one iteration of the status polling loop
PollStatus(step) ==
    /\ pc = step
    /\ sst.cur # "none"
    /\ CASE sst.cur = "confirmed" ->
              StepSucceeded(step) /\ UNCHANGED abandoned
         [] sst.cur = "pending" ->
              IF sst.polls + 1 < MaxPolls
                THEN /\ sst' = [sst EXCEPT !.polls = @ + 1]
                     /\ UNCHANGED <<callVars, otherVars, abandoned>>
                ELSE /\ abandoned' = [abandoned EXCEPT ![step] = IF OnChainOk(step) THEN @ + 1 ELSE @]
                     /\ AttemptFailed(step, SstError("timeout", "none"))
         [] OTHER ->
              AttemptFailed(step, SstError("status", sst.cur)) /\ UNCHANGED abandoned
    /\ UNCHANGED <<txs, storageExists, sessionStatus, landed, dispVars, chk, histVars>>

\* the ledger processes the transaction the client is polling
LedgerProcessCur(step) ==
    /\ pc = step
    /\ sst.cur = "pending"
    /\ IF OnChainOk(step)
         THEN \E ok \in BOOLEAN :
                IF ok THEN sst' = [sst EXCEPT !.cur = "confirmed"] /\ Effect(step)
                      ELSE /\ sst' = [sst EXCEPT !.cur = "Other"]
                           /\ UNCHANGED <<storageExists, sessionStatus, landed, abandoned>>
         ELSE /\ sst' = [sst EXCEPT !.cur = OnChainErr(step)]
              /\ UNCHANGED <<storageExists, sessionStatus, landed, abandoned>>
    /\ UNCHANGED <<txs, callVars, otherVars, dispVars, chk, histVars>>

\* the ledger processes a transaction the client gave up on after its polling window
LedgerProcessAbandoned(step) ==
    /\ abandoned[step] > 0
    /\ \E ok \in BOOLEAN :
         IF ok /\ OnChainOk(step)
           THEN Effect(step)
           ELSE /\ abandoned' = [abandoned EXCEPT ![step] = @ - 1]
                /\ UNCHANGED <<storageExists, sessionStatus, landed>>
    /\ UNCHANGED <<txs, callVars, otherVars, sst, dispVars, chk, histVars>>

(***************************************************************************)
(* Ledger: chunk transactions.  A submitted transaction stays pending      *)
(* until the ledger confirms it or fails it; it may do so after the client *)
(* stopped waiting for it.                                                 *)
(***************************************************************************)
LedgerConfirmChunk(s) ==
    /\ txs[s].st = "pending"
    /\ txs' = [txs EXCEPT ![s].st = "confirmed"]
    /\ UNCHANGED <<storageExists, sessionStatus, abandoned, landed,
                   callVars, otherVars, sst, dispVars, chk, histVars>>

\* A failure is visible only through a status query: a transaction whose signature
\* the client no longer holds is left pending (it may still confirm) rather than failed.
Awaited ==
    Range(batchSigs) \cup Range(chk.sigs) \cup
    (IF pc \in {"p_send", "s_send", "s_retry_send"} THEN Range(allSignatures) ELSE {}) \cup
    (IF pc = "p_retry_send" THEN Range(retrySignatures) ELSE {})

LedgerFailChunk(s) ==
    /\ txs[s].st = "pending"
    /\ s \in Awaited
    /\ txs' = [txs EXCEPT ![s].st = "err"]
    /\ UNCHANGED <<storageExists, sessionStatus, abandoned, landed,
                   callVars, otherVars, sst, dispVars, chk, histVars>>

(***************************************************************************)
(* IQLabsAPI.signAndSendTransactionNoConfirm: the transaction of chunk c   *)
(* is signed and sent; the signature is returned without waiting.          *)
(***************************************************************************)
NewSig == Len(txs) + 1

Submit(c) == txs' = Append(txs, [chunk |-> c, st |-> "pending"])

(***************************************************************************)
(* IQLabsAPI.checkConfirmationStatus                                       *)
(***************************************************************************)
CheckStart(sigs) == [sigs |-> sigs, confirmed |-> {}, polls |-> 0, erred |-> {}, queries |-> 0]

\* positions skipped by  if (confirmed.has(j)) continue
Skipped(c) == c.confirmed

\* the positions confirmed after one more pass over the statuses
Classify(c) ==
    c.confirmed \cup {j \in (1 .. Len(c.sigs)) \ Skipped(c) : txs[c.sigs[j]].st = "confirmed"}

\* the positions for which some pass of the call logged  Transaction j failed:
\* the status carried an error; the pass goes on to the next position
Erred(c) ==
    c.erred \cup {j \in (1 .. Len(c.sigs)) \ Skipped(c) : txs[c.sigs[j]].st = "err"}

\* a loop that asks for each signature's status by itself
StatusQueriesEach(c) == Len(c.sigs)

\* getSignatureStatuses calls of one pass: one call with the whole signature array
StatusQueries(c) == 1

\* confirmedSigs: the signatures at confirmed positions, in order
ConfirmedSigs(sigs, conf) ==
    LET F[k \in 0 .. Len(sigs)] ==
          IF k = 0 THEN <<>>
          ELSE IF k \in conf THEN Append(F[k - 1], sigs[k]) ELSE F[k - 1]
    IN  F[Len(sigs)]

\* a result that lists every position as failed
FailedIdxAll(sigs, conf) == [k \in 1 .. Len(sigs) |-> k - 1]

\* a result that lists only the positions whose status carries an error
FailedIdxErrOnly(sigs, conf) ==
    LET F[k \in 0 .. Len(sigs)] ==
          IF k = 0 THEN <<>>
          ELSE IF k \notin conf /\ txs[sigs[k]].st = "err" THEN Append(F[k - 1], k - 1)
          ELSE F[k - 1]
    IN  F[Len(sigs)]

\* failed: the (0-based) positions not confirmed, ascending
FailedIdx(sigs, conf) ==
    LET F[k \in 0 .. Len(sigs)] ==
          IF k = 0 THEN <<>>
          ELSE IF k \in conf THEN F[k - 1] ELSE Append(F[k - 1], k - 1)
    IN  F[Len(sigs)]

ChunkSigs(sigs) == [k \in 1 .. Len(sigs) |-> [k |-> "chunk", id |-> sigs[k]]]

\* the locals of the dispatch function are gone once it returned or threw
DropLocals ==
    /\ i' = 0
    /\ batchSigs' = <<>>
    /\ allSignatures' = <<>>
    /\ finalSignatures' = <<>>
    /\ toRetry' = <<>>
    /\ attempt' = 0
    /\ retrySignatures' = <<>>
    /\ rpos' = 0

\* the dispatch returned sigs to storeLargeData: signatures.push(...chunkSigs)
DispatchReturn(sigs) ==
    /\ pc' = "finalize"
    /\ DropLocals
    /\ signatures' = signatures \o ChunkSigs(sigs)
    /\ UNCHANGED <<useSequential, hasInitTx, otherVars, uploadError, initErr>>

\* the dispatch threw: n transactions failed after retries
DispatchThrow(n) ==
    /\ pc' = "failed"
    /\ DropLocals
    /\ uploadError' = [kind |-> "chunks", code |-> "none", count |-> n, named |-> {}]
    /\ UNCHANGED <<useSequential, hasInitTx, otherVars, signatures, initErr>>

\* a loop that retries for as long as something failed
RetryAgainWhileFailing(tr, a) == tr # <<>>

\* the loop condition  attempt <= 2 && toRetry.length > 0
RetryAgain(tr, a) == a <= ChunkRetryRounds /\ tr # <<>>

\* head of  for (attempt = 1; attempt <= 2 && toRetry.length > 0; attempt++)
\* and the code after the loop
RetryLoop(tr, a, fs) ==
    IF RetryAgain(tr, a)
      THEN /\ pc' = "p_retry_send"
           /\ toRetry' = tr
           /\ attempt' = a
           /\ finalSignatures' = fs
           /\ retrySignatures' = <<>>
           /\ rpos' = 0
           /\ UNCHANGED <<i, batchSigs, allSignatures>>
           /\ UNCHANGED <<useSequential, hasInitTx, otherVars, signatures, uploadError, initErr>>
      ELSE IF tr # <<>> THEN DispatchThrow(Len(tr)) ELSE DispatchReturn(fs)

\* what the caller does with { confirmed, failed }
AfterCheck(conf, failed) ==
    CASE pc = "p_check"       -> RetryLoop(failed, 1, conf)
      [] pc = "p_retry_check" -> RetryLoop(failed, attempt + 1, finalSignatures \o conf)
      [] pc = "s_check" ->
            IF failed = <<>>
              THEN DispatchReturn(allSignatures)
              ELSE /\ pc' = "s_retry_send"
                   /\ toRetry' = failed
                   /\ rpos' = 0
                   /\ UNCHANGED <<i, batchSigs, allSignatures, finalSignatures, attempt,
                                  retrySignatures>>
                   /\ UNCHANGED <<useSequential, hasInitTx, otherVars, signatures, uploadError, initErr>>
      [] pc = "s_recheck" ->
            IF failed # <<>> THEN DispatchThrow(Len(failed)) ELSE DispatchReturn(allSignatures)

\* one iteration of the polling loop; the last one builds the result
PollConfirmations ==
    /\ pc \in {"p_check", "p_retry_check", "s_check", "s_recheck"}
    /\ LET conf  == Classify(chk)
           polls == chk.polls + 1
           done  == Cardinality(conf) = Len(chk.sigs) \/ polls = MaxPolls
       IN  /\ rechecked' = rechecked \cup
                 {chk.sigs[j] : j \in {k \in (1 .. Len(chk.sigs)) \ Skipped(chk) :
                                          chk.sigs[k] \in observed}}
           /\ observed' = observed \cup {chk.sigs[j] : j \in conf}
           /\ IF done
                THEN /\ classFailed' = classFailed \cup
                            {chk.sigs[j] : j \in (1 .. Len(chk.sigs)) \ conf}
                     /\ chk' = ChkIdle
                     /\ AfterCheck(ConfirmedSigs(chk.sigs, conf), FailedIdx(chk.sigs, conf))
                ELSE /\ chk' = [chk EXCEPT !.confirmed = conf, !.polls = polls,
                                            !.erred = Erred(chk),
                                            !.queries = @ + StatusQueries(chk)]
                     /\ UNCHANGED <<classFailed, callVars, otherVars, dispVars>>
    /\ UNCHANGED <<ledgerVars, sst>>

(***************************************************************************)
(* IQLabsAPI.signAndSendTransactionsParallel                               *)
(***************************************************************************)
\* batch = transactions.slice(i, i + batchSize)
BatchLen == IF i + BatchSize <= NChunks THEN BatchSize ELSE NChunks - i

\* the send loop moves to the next batch, or on to the confirmation check
NextBatch(sigs) ==
    /\ allSignatures' = sigs
    /\ batchSigs' = <<>>
    /\ i' = i + BatchSize
    /\ IF i + BatchSize >= NChunks
         THEN pc' = "p_check" /\ chk' = CheckStart(sigs)
         ELSE pc' = pc /\ chk' = chk

\* a transaction of the current batch is sent
ParSendOk ==
    /\ pc = "p_send"
    /\ Submit(i + Len(batchSigs))
    /\ LET bs == Append(batchSigs, NewSig)
       IN  IF Len(bs) = BatchLen
             THEN NextBatch(allSignatures \o bs)
             ELSE /\ batchSigs' = bs
                  /\ UNCHANGED <<i, allSignatures, pc, chk>>
    /\ UNCHANGED <<storageExists, sessionStatus, abandoned, landed, useSequential, hasInitTx, otherVars,
                   signatures, uploadError, initErr, sst, finalSignatures, toRetry, attempt,
                   retrySignatures, rpos, histVars>>

\* a send of the current batch throws: the catch block logs and the loop goes on
ParSendThrow ==
    /\ pc = "p_send"
    /\ NextBatch(allSignatures)
    /\ UNCHANGED <<ledgerVars, useSequential, hasInitTx, otherVars, signatures, uploadError, initErr, sst,
                   finalSignatures, toRetry, attempt, retrySignatures, rpos, histVars>>

\* the retry loop moves to the next transaction, or on to the confirmation check
NextRetry(rs) ==
    /\ retrySignatures' = rs
    /\ rpos' = rpos + 1
    /\ IF rpos + 1 = Len(toRetry)
         THEN pc' = "p_retry_check" /\ chk' = CheckStart(rs)
         ELSE pc' = pc /\ chk' = chk

\* retryTxs = toRetry.map(idx => transactions[idx]); one of them is sent
ParRetrySendOk ==
    /\ pc = "p_retry_send"
    /\ Submit(toRetry[rpos + 1])
    /\ NextRetry(Append(retrySignatures, NewSig))
    /\ UNCHANGED <<storageExists, sessionStatus, abandoned, landed, useSequential, hasInitTx, otherVars,
                   signatures, uploadError, initErr, sst, i, batchSigs, allSignatures,
                   finalSignatures, toRetry, attempt, histVars>>

ParRetrySendThrow ==
    /\ pc = "p_retry_send"
    /\ NextRetry(retrySignatures)
    /\ UNCHANGED <<ledgerVars, useSequential, hasInitTx, otherVars, signatures, uploadError, initErr, sst,
                   i, batchSigs, allSignatures, finalSignatures, toRetry, attempt, histVars>>

(***************************************************************************)
(* IQLabsAPI.signAndSendTransactionsSequential                             *)
(***************************************************************************)
SeqSendOk ==
    /\ pc = "s_send"
    /\ Submit(i)
    /\ allSignatures' = Append(allSignatures, NewSig)
    /\ i' = i + 1
    /\ IF i + 1 = NChunks
         THEN pc' = "s_check" /\ chk' = CheckStart(Append(allSignatures, NewSig))
         ELSE pc' = pc /\ chk' = chk
    /\ UNCHANGED <<storageExists, sessionStatus, abandoned, landed, useSequential, hasInitTx, otherVars,
                   signatures, uploadError, initErr, sst, batchSigs, finalSignatures, toRetry,
                   attempt, retrySignatures, rpos, histVars>>

\* a send throws: the error is rethrown to storeLargeData
SeqSendThrow ==
    /\ pc \in {"s_send", "s_retry_send"}
    /\ pc' = "failed"
    /\ DropLocals
    /\ uploadError' = [kind |-> "send", code |-> "none", count |-> 0, named |-> {}]
    /\ UNCHANGED <<ledgerVars, useSequential, hasInitTx, otherVars, signatures, initErr, sst,
                   chk, histVars>>

\* for (const idx of checkResult.failed): signatures[idx] = sig
SeqRetrySendOk ==
    /\ pc = "s_retry_send"
    /\ Submit(toRetry[rpos + 1])
    /\ allSignatures' = [allSignatures EXCEPT ![toRetry[rpos + 1] + 1] = NewSig]
    /\ rpos' = rpos + 1
    /\ IF rpos + 1 = Len(toRetry)
         THEN pc' = "s_recheck" /\ chk' = CheckStart(allSignatures')
         ELSE pc' = pc /\ chk' = chk
    /\ UNCHANGED <<storageExists, sessionStatus, abandoned, landed, useSequential, hasInitTx, otherVars,
                   signatures, uploadError, initErr, sst, i, batchSigs, finalSignatures, toRetry,
                   attempt, retrySignatures, histVars>>

(***************************************************************************)
(* utils/storage: buffers are sequences of bytes.                          *)
(***************************************************************************)
Min(a, b) == IF a < b THEN a ELSE b

\* the loop of chunkData from offset off on:
\* for (i = off; i < data.length; i += chunkSize) chunks.push(data.slice(i, i + chunkSize))
RECURSIVE ChunkLoop(_, _, _)
ChunkLoop(data, chunkSize, off) ==
    IF off < Len(data)
      THEN <<SubSeq(data, off + 1, Min(off + chunkSize, Len(data)))>>
           \o ChunkLoop(data, chunkSize, off + chunkSize)
      ELSE <<>>

\* a chunking that keeps only the slices of full size
chunkDataFullOnly(data, chunkSize) ==
    [k \in 1 .. (Len(data) \div chunkSize) |->
        SubSeq(data, (k - 1) * chunkSize + 1, k * chunkSize)]

\* chunkData(data, chunkSize): the slices [i, i + chunkSize) for i = 0, chunkSize, ...
chunkData(data, chunkSize) == ChunkLoop(data, chunkSize, 0)

\* reconstructData(chunks): Buffer.concat(chunks)
reconstructData(chunks) ==
    LET F[k \in 0 .. Len(chunks)] == IF k = 0 THEN <<>> ELSE F[k - 1] \o chunks[k]
    IN  F[Len(chunks)]

\* length of the run of equal bytes b starts with
RunLen(b) ==
    CHOOSE n \in 1 .. Len(b) :
        /\ \A k \in 1 .. n : b[k] = b[1]
        /\ n = Len(b) \/ b[n + 1] # b[1]

\* the compressed body of a gzip stream, abstracted to run-length pairs <<count, byte>>
RECURSIVE Deflate(_)
Deflate(b) ==
    IF b = <<>> THEN <<>>
    ELSE <<RunLen(b), b[1]>> \o Deflate(SubSeq(b, RunLen(b) + 1, Len(b)))

RECURSIVE Inflate(_)
Inflate(z) ==
    IF Len(z) < 2 THEN <<>>
    ELSE [k \in 1 .. z[1] |-> z[2]] \o Inflate(SubSeq(z, 3, Len(z)))

\* compressData: zlib.gzip. The stream opens with the gzip magic 0x1f 0x8b and the
\* method byte 8, and closes with the length of the input
compressData(data) == <<31, 139, 8>> \o Deflate(data) \o <<Len(data) % 256>>

\* the stream is one zlib.gunzip accepts
IsGzip(z) ==
    /\ Len(z) >= 4
    /\ z[1] = 31 /\ z[2] = 139 /\ z[3] = 8
    /\ (Len(z) - 4) % 2 = 0
    /\ \A k \in 1 .. ((Len(z) - 4) \div 2) : z[2 + 2 * k] >= 1
    /\ Len(Inflate(SubSeq(z, 4, Len(z) - 1))) % 256 = z[Len(z)]

\* decompressData: zlib.gunzip; it rejects (the promise rejects) what is not a gzip stream
decompressData(z) ==
    IF IsGzip(z) THEN [ok |-> TRUE, data |-> Inflate(SubSeq(z, 4, Len(z) - 1))]
                 ELSE [ok |-> FALSE, data |-> <<>>]

\* writeUInt32LE / readUInt32LE at a 0-based offset
U32LE(n) == <<n % 256, (n \div 256) % 256, (n \div 65536) % 256, (n \div 16777216) % 256>>

ReadU32LE(data, off) ==
    data[off + 1] + 256 * data[off + 2] + 65536 * data[off + 3] + 16777216 * data[off + 4]

(***************************************************************************)
(* Buffer.from(text, 'base64') and the test readData makes before it.      *)
(***************************************************************************)
\* the characters of [A-Za-z0-9+/=]
IsBase64Char(c) ==
    \/ c \in 65 .. 90 \/ c \in 97 .. 122 \/ c \in 48 .. 57
    \/ c = 43 \/ c = 47 \/ c = 61

IsSpace(c) == c \in {9, 10, 11, 12, 13, 32}

\* the six-bit value of a base64 digit
B64Val(c) ==
    CASE c \in 65 .. 90  -> c - 65
      [] c \in 97 .. 122 -> c - 71
      [] c \in 48 .. 57  -> c + 4
      [] c = 43          -> 62
      [] OTHER           -> 63

\* the base64 digits of the text up to the first '=': the decoder skips the rest
RECURSIVE B64Digits(_)
B64Digits(s) ==
    IF s = <<>> \/ s[1] = 61 THEN <<>>
    ELSE IF IsBase64Char(s[1]) THEN <<B64Val(s[1])>> \o B64Digits(Tail(s))
    ELSE B64Digits(Tail(s))

\* four digits give three bytes, a tail of three gives two, of two gives one
RECURSIVE B64Bytes(_)
B64Bytes(d) ==
    IF Len(d) < 2 THEN <<>>
    ELSE IF Len(d) = 2 THEN <<d[1] * 4 + d[2] \div 16>>
    ELSE IF Len(d) = 3
      THEN <<d[1] * 4 + d[2] \div 16, (d[2] % 16) * 16 + d[3] \div 4>>
    ELSE <<d[1] * 4 + d[2] \div 16, (d[2] % 16) * 16 + d[3] \div 4, (d[3] % 4) * 64 + d[4]>>
         \o B64Bytes(SubSeq(d, 5, Len(d)))

Base64Decode(s) == B64Bytes(B64Digits(s))

(***************************************************************************)
(* PinocchioAdapter and PinocchioWriter: storeData posts the chunks of a   *)
(* payload as instruction data, readData rebuilds a payload from the       *)
(* instruction data recorded for the session address.                      *)
(***************************************************************************)
\* longest payload
MaxLen == 3
\* PINOCCHIO_CHUNK_SIZE of utils/storage (1000 there), scaled to the payloads
PINOCCHIO_CHUNK_SIZE == 3
\* CHUNK_SIZE of PinocchioWriter (900 there), scaled to the payloads
CHUNK_SIZE == 2
\* PinocchioWriter flags only payloads longer than this (100 there)
WriterCompressMin == 1

POST_CHUNK_DISCRIMINATOR == 4
\* session_id(16)
SessionIdLen == 16
\* discriminator(1) + session_id(16) + chunk_index(4) + method(1)
MinInstructionLen == 22
\* readData tests the first 100 bytes for base64
Base64SampleLen == 100

\* bytes payloads are made of: 0x01, '1', 'H', '{'
PayloadBytes == {1, 49, 72, 123}

Payloads == UNION {[1 .. n -> PayloadBytes] : n \in 0 .. MaxLen}

SessionIds == {[k \in 1 .. SessionIdLen |-> b] : b \in {7, 9}}

ReadNone == [status |-> "none", data |-> <<>>, acquired |-> 0, account |-> "absent",
             afterStore |-> FALSE, hist |-> <<>>, warned |-> FALSE]

\* PinocchioAdapter.storeData steps 1-2: the buffer that is chunked
AdapterEncode(data, compress) == IF compress THEN compressData(data) ELSE data

\* PinocchioWriter.storeData: the compression flag byte is put before the data
WriterEncode(data, compress) ==
    IF compress /\ Len(data) > WriterCompressMin THEN <<1>> \o data ELSE data

Chunks ==
    IF impl = "adapter" THEN chunkData(finalData, PINOCCHIO_CHUNK_SIZE)
                        ELSE chunkData(finalData, CHUNK_SIZE)

\* an instruction that puts the method tag before the chunk index
InstructionDataMethodFirst(sid, chunkIndex, method, chunk) ==
    <<POST_CHUNK_DISCRIMINATOR>> \o sid \o <<method>> \o U32LE(chunkIndex) \o chunk

\* postChunk: discriminator(1) + session_id(16) + chunk_index(4) + method(1) + chunk_data
InstructionData(sid, chunkIndex, method, chunk) ==
    <<POST_CHUNK_DISCRIMINATOR>> \o sid \o U32LE(chunkIndex) \o <<method>> \o chunk

\* readData: the instructions that pass the length and discriminator checks
IsChunkIx(data) == Len(data) >= MinInstructionLen /\ data[1] = POST_CHUNK_DISCRIMINATOR

IxChunkIndex(data) == ReadU32LE(data, 1 + SessionIdLen)

IxChunkData(data) == SubSeq(data, MinInstructionLen + 1, Len(data))

\* chunkMap, built from the transactions in the order they are fetched:
\* chunkMap.set overwrites, so an index keeps the data of its transaction fetched last
ChunkMapKeys(hist) == {IxChunkIndex(hist[k].data) : k \in {j \in 1 .. Len(hist) : IsChunkIx(hist[j].data)}}

ChunkMapGet(hist, idx) ==
    LET ks == {j \in 1 .. Len(hist) : IsChunkIx(hist[j].data) /\ IxChunkIndex(hist[j].data) = idx}
        k  == CHOOSE j \in ks : \A m \in ks : j >= m
    IN  IxChunkData(hist[k].data)

\* Array.from(keys).sort((a, b) => a - b)
RECURSIVE SortedIndices(_)
SortedIndices(S) ==
    IF S = {} THEN <<>>
    ELSE LET m == CHOOSE x \in S : \A y \in S : x <= y
         IN  <<m>> \o SortedIndices(S \ {m})

\* the chunks in the order they were fetched, concatenated
ReassembleArrival(hist) ==
    LET ks == SortedIndices({j \in 1 .. Len(hist) : IsChunkIx(hist[j].data)})
    IN  reconstructData([k \in 1 .. Len(ks) |-> IxChunkData(hist[ks[k]].data)])

\* the chunks in index order, concatenated
Reassemble(hist) ==
    LET idx == SortedIndices(ChunkMapKeys(hist))
    IN  reconstructData([k \in 1 .. Len(idx) |-> ChunkMapGet(hist, idx[k])])

\* toString('ascii') keeps the low seven bits of a byte
Ascii(data) == [k \in 1 .. Len(data) |-> data[k] % 128]

\* PinocchioAdapter.readData step 6: data that looks like base64 text is decoded
LooksBase64(data) ==
    /\ Len(data) >= 1
    /\ data[1] >= 65 \/ data[1] = 47 \/ data[1] = 43
    /\ LET sample == Ascii(SubSeq(data, 1, Min(Base64SampleLen, Len(data))))
           kept   == {k \in 1 .. Len(sample) : ~IsSpace(sample[k])}
       IN  kept # {} /\ \A k \in kept : IsBase64Char(sample[k])

Base64Step(data) == IF LooksBase64(data) THEN Base64Decode(Ascii(data)) ELSE data

\* step 7: data that starts with 0x01 is taken as compressed and gunzipped
CompressionStep(data) ==
    IF Len(data) >= 1 /\ data[1] = 1 THEN decompressData(Tail(data))
                                     ELSE [ok |-> TRUE, data |-> data]

\* PinocchioAdapter.readData: console.warn when the chunks found are not as many
\* as the session account declares
CountWarning(total, hist) == Cardinality(ChunkMapKeys(hist)) # total

\* what PinocchioAdapter.readData returns or throws, given the session account, the
\* total_chunks it declares and the transactions fetched for the session address
AdapterRead(acct, total, hist) ==
    IF acct = "absent" THEN [status |-> "not_found", data |-> <<>>, warned |-> FALSE]
    ELSE IF ChunkMapKeys(hist) = {}
      THEN [status |-> "no_chunks", data |-> <<>>, warned |-> FALSE]
    ELSE LET r == CompressionStep(Base64Step(Reassemble(hist)))
             w == CountWarning(total, hist)
         IN  IF r.ok THEN [status |-> "ok", data |-> r.data, warned |-> w]
                     ELSE [status |-> "decode_error", data |-> <<>>, warned |-> w]

\* what PinocchioWriter.readData returns or throws; totalChunks is only logged
WriterRead(acct, total, hist) ==
    IF acct = "absent" THEN [status |-> "not_found", data |-> <<>>, warned |-> FALSE]
    ELSE [status |-> "ok", data |-> Reassemble(hist), warned |-> FALSE]

\* the transactions of the session address as the reader fetches them, in the order ord
Fetched(hist, ord) == [k \in 1 .. Len(hist) |-> hist[ord[k]]]

\* storeData up to the posting loop: encode, generate the session id, chunk, and
\* createSession, which derives the session address and sends nothing.  With no
\* chunk the posting loop is skipped and storeData returns.
StoreData ==
    /\ ppc = "start"
    /\ finalData' = IF impl = "adapter" THEN AdapterEncode(payload, compression)
                                        ELSE WriterEncode(payload, compression)
    /\ sessionId' \in SessionIds
    /\ pidx' = 0
    /\ ppc' = IF finalData' = <<>> THEN "stored" ELSE "post"
    /\ UNCHANGED <<uploadVars, ret, libVars, impl, payload, compression, posted, account, totalChunks,
                   readResult>>

\* one iteration of the posting loop.  The transaction lands or is dropped; a landed
\* one succeeds only on an active session.  The adapter sends without preflight and
\* ignores the result of confirmTransaction; the writer throws on a failed transaction.
PostChunk ==
    /\ ppc = "post"
    /\ \E out \in {"landed", "dropped"} :
         LET ix == InstructionData(sessionId, pidx, 0, Chunks[pidx + 1])
             ok == account = "active"
         IN  IF out = "dropped" \/ (impl = "writer" /\ ~ok)
               THEN /\ ppc' = "store_failed"
                    /\ UNCHANGED <<posted, pidx>>
               ELSE /\ posted' = Append(posted, [data |-> ix, ok |-> ok])
                    /\ pidx' = pidx + 1
                    /\ ppc' = IF pidx + 1 = Len(Chunks) THEN "stored" ELSE "post"
    /\ UNCHANGED <<uploadVars, ret, libVars, impl, payload, compression, sessionId, finalData, account,
                   totalChunks, readResult>>

\* readData on the session address.  The transactions of the address come in the
\* order the node lists them, which the reader has no say in.
ReadData ==
    /\ ppc \in {"post", "stored"}
    /\ readResult.status = "none"
    /\ \E ord \in Permutations(1 .. Len(posted)) :
         LET hist == Fetched(posted, ord)
             r    == IF impl = "adapter" THEN AdapterRead(account, totalChunks, hist)
                                         ELSE WriterRead(account, totalChunks, hist)
         IN  readResult' = [status |-> r.status, data |-> r.data,
                            acquired |-> IF r.status = "not_found" THEN 0
                                         ELSE Cardinality(ChunkMapKeys(hist)),
                            account |-> account, afterStore |-> ppc = "stored",
                            hist |-> IF r.status = "not_found" THEN <<>> ELSE hist,
                            warned |-> r.warned]
    /\ UNCHANGED <<uploadVars, ret, libVars, impl, payload, compression, ppc, sessionId, finalData, pidx,
                   posted, account, totalChunks>>

\* no Pinocchio call is in progress
PinIdle ==
    /\ impl = "none"
    /\ payload = <<>>
    /\ compression = FALSE
    /\ ppc = "idle"
    /\ sessionId = <<>>
    /\ finalData = <<>>
    /\ pidx = 0
    /\ posted = <<>>
    /\ account = "absent"
    /\ totalChunks = 0
    /\ readResult = ReadNone

\* no retrieve call is in progress
RetrieveIdle == ret = RetNone

\* no call of the adapters and engines around the storage is in progress
LibIdle ==
    /\ mem = MemNone
    /\ table = {}
    /\ vec = VecNone
    /\ gq = GqNone
    /\ vs = VsNone

\* no upload call is in progress
UploadIdle ==
    /\ txs = <<>>
    /\ storageExists = FALSE
    /\ sessionStatus = "none"
    /\ abandoned = [s \in Steps |-> 0]
    /\ landed = [s \in Steps |-> 0]
    /\ pc = "idle"
    /\ useSequential = FALSE
    /\ hasInitTx = FALSE
    /\ signatures = <<>>
    /\ uploadError = NoError
    /\ initErr = NoError
    /\ sst = SstIdle
    /\ i = 0
    /\ batchSigs = <<>>
    /\ allSignatures = <<>>
    /\ finalSignatures = <<>>
    /\ toRetry = <<>>
    /\ attempt = 0
    /\ retrySignatures = <<>>
    /\ rpos = 0
    /\ chk = ChkIdle
    /\ observed = {}
    /\ classFailed = {}
    /\ rechecked = {}

InitPinocchio ==
    /\ UploadIdle
    /\ RetrieveIdle
    /\ LibIdle
    /\ impl \in {"adapter", "writer"}
    /\ payload \in Payloads
    /\ compression \in BOOLEAN
    /\ ppc = "start"
    /\ sessionId = <<>>
    /\ finalData = <<>>
    /\ pidx = 0
    /\ posted = <<>>
    /\ account \in {"absent", "active", "finalized"}
    /\ totalChunks \in IF account = "absent" THEN {0} ELSE 1 .. MaxLen
    /\ readResult = ReadNone

NextPinocchio ==
    \/ StoreData
    \/ PostChunk
    \/ ReadData

SpecPinocchio == InitPinocchio /\ [][NextPinocchio]_vars

\* chunk transactions of another sender that name the session address
MaxForeign == 1

\* readData reads session_id from the session account: the account at the address
\* derived from the wallet and sessionId records that id
RecordedSessionId == sessionId

\* PinocchioWriter.readData: chunkSessionId, which it reads and does not use
IxSessionId(data) == SubSeq(data, 2, 1 + SessionIdLen)

\* the transactions posted for another session
Foreign(hist) == {k \in 1 .. Len(hist) : IxSessionId(hist[k].data) # RecordedSessionId}

\* a transaction of another sender lists the session address among its accounts and
\* carries a chunk instruction of another session; whether it succeeds or fails, it
\* is among the signatures getSignaturesForAddress returns for the address.  Here
\* it arrives between the end of storeData and the read.
ForeignPost ==
    /\ ppc = "stored"
    /\ readResult.status = "none"
    /\ Cardinality(Foreign(posted)) < MaxForeign
    /\ \E sid \in SessionIds \ {RecordedSessionId}, chunkIndex \in {0}, byte \in {72} :
         posted' = Append(posted, [data |-> InstructionData(sid, chunkIndex, 0, <<byte>>),
                                   ok |-> FALSE])
    /\ UNCHANGED <<uploadVars, ret, libVars, impl, payload, compression, ppc, sessionId, finalData,
                   pidx, account, totalChunks, readResult>>

NextPinocchioShared ==
    \/ NextPinocchio
    \/ ForeignPost

\* the session address also receives transactions of other senders
SpecPinocchioShared == InitPinocchio /\ [][NextPinocchioShared]_vars

(***************************************************************************)
(* The upload specification.                                               *)
(***************************************************************************)
\* storeLargeData is entered: nothing sent, nothing on the ledger
UploadStart ==
    /\ txs = <<>>
    /\ storageExists \in BOOLEAN
    /\ sessionStatus = "none"
    /\ abandoned = [s \in Steps |-> 0]
    /\ landed = [s \in Steps |-> 0]
    /\ pc = "create"
    /\ useSequential \in BOOLEAN
    /\ hasInitTx \in BOOLEAN
    /\ signatures = <<>>
    /\ uploadError = NoError
    /\ initErr = NoError
    /\ sst = SstIdle
    /\ i = 0
    /\ batchSigs = <<>>
    /\ allSignatures = <<>>
    /\ finalSignatures = <<>>
    /\ toRetry = <<>>
    /\ attempt = 0
    /\ retrySignatures = <<>>
    /\ rpos = 0
    /\ chk = ChkIdle
    /\ observed = {}
    /\ classFailed = {}
    /\ rechecked = {}

Init ==
    /\ UploadStart
    /\ PinIdle
    /\ RetrieveIdle
    /\ LibIdle

Next ==
    \/ \E step \in Steps : SimulateAndSend(step)
    \/ \E step \in Steps : PollStatus(step)
    \/ \E step \in Steps : LedgerProcessCur(step)
    \/ \E step \in Steps : LedgerProcessAbandoned(step)
    \/ \E s \in 1 .. Len(txs) : LedgerConfirmChunk(s)
    \/ \E s \in 1 .. Len(txs) : LedgerFailChunk(s)
    \/ ParSendOk
    \/ ParSendThrow
    \/ ParRetrySendOk
    \/ ParRetrySendThrow
    \/ SeqSendOk
    \/ SeqSendThrow
    \/ SeqRetrySendOk
    \/ PollConfirmations

Spec == Init /\ [][Next]_vars

(***************************************************************************)
(* The chunk dispatch alone: signAndSendTransactionsParallel or            *)
(* signAndSendTransactionsSequential called on a created session, up to    *)
(* its return or throw.                                                    *)
(***************************************************************************)
InitDispatch ==
    /\ txs = <<>>
    /\ storageExists = TRUE
    /\ sessionStatus = "active"
    /\ abandoned = [s \in Steps |-> 0]
    /\ landed = [s \in Steps |-> IF s = "create" THEN 1 ELSE 0]
    /\ useSequential \in BOOLEAN
    /\ pc = ChunkStart
    /\ hasInitTx = FALSE
    /\ signatures = <<[k |-> "create", id |-> 0]>>
    /\ uploadError = NoError
    /\ initErr = NoError
    /\ sst = SstIdle
    /\ i = 0
    /\ batchSigs = <<>>
    /\ allSignatures = <<>>
    /\ finalSignatures = <<>>
    /\ toRetry = <<>>
    /\ attempt = 0
    /\ retrySignatures = <<>>
    /\ rpos = 0
    /\ chk = ChkIdle
    /\ observed = {}
    /\ classFailed = {}
    /\ rechecked = {}
    /\ PinIdle
    /\ RetrieveIdle
    /\ LibIdle

NextDispatch ==
    \/ \E s \in 1 .. Len(txs) : LedgerConfirmChunk(s)
    \/ \E s \in 1 .. Len(txs) : LedgerFailChunk(s)
    \/ ParSendOk
    \/ ParSendThrow
    \/ ParRetrySendOk
    \/ ParRetrySendThrow
    \/ SeqSendOk
    \/ SeqSendThrow
    \/ SeqRetrySendOk
    \/ PollConfirmations

SpecDispatch == InitDispatch /\ [][NextDispatch]_vars

\* the steps of the dispatch function itself: each is the continuation of an await
\* (a timer, the reply or the failure of an RPC call), which the runtime resumes
DispatchStep ==
    \/ ParSendOk \/ ParSendThrow \/ ParRetrySendOk \/ ParRetrySendThrow
    \/ SeqSendOk \/ SeqSendThrow \/ SeqRetrySendOk \/ PollConfirmations

SpecDispatchFair == SpecDispatch /\ WF_vars(DispatchStep)

(***************************************************************************)
(* The upload up to the end of the chunk dispatch: session creation,       *)
(* storage initialisation and dispatch, without the finalize step.         *)
(***************************************************************************)
SetupSteps == {"create", "init"}

NextSetup ==
    \/ \E step \in SetupSteps : SimulateAndSend(step)
    \/ \E step \in SetupSteps : PollStatus(step)
    \/ \E step \in SetupSteps : LedgerProcessCur(step)
    \/ \E step \in SetupSteps : LedgerProcessAbandoned(step)
    \/ NextDispatch

SpecSetup == Init /\ [][NextSetup]_vars

(***************************************************************************)
(* LargeDataStorage.retrieveLargeData(sessionPubkey, maxRetries,           *)
(* retryDelay): up to maxRetries attempts, each fetching the session       *)
(* metadata and, when it says finalized, downloading the data.             *)
(***************************************************************************)
\* largest maxRetries argument
MaxRetriesArg == 3

\* the messages of the errors the call can end with; "maxRetries" and
\* "error.message" stand for the interpolated values
NotFinalizedError == <<"Session not finalized after ", "maxRetries", " attempts">>

\* thrown by IQLabsAPI.getSessionMetadata around the HTTP error
MetadataError == <<"Failed to get session metadata: ", "error.message">>

\* thrown by IQLabsAPI.downloadSession around the HTTP error
DownloadError == <<"Failed to download session: ", "error.message">>

\* thrown after the loop
LoopExitError == <<"Failed to retrieve data after ", "maxRetries", " attempts">>

\* attempt <= maxRetries
LoopGuard(a, max) == a <= max

\* a retry test that lets the last attempt retry too
CanRetryInclusive(a, max) == a <= max

\* attempt < maxRetries, in the not-finalized branch and in the catch block
CanRetry(a, max) == a < max

\* a status test that never takes a session as finalized
IsFinalizedNever(status) == FALSE

\* metadata.status !== 'finalized', negated
IsFinalized(status) == status = "finalized"

\* the status the metadata endpoint reports for the session
ReportedStatus == IF sessionStatus = "finalized" THEN "finalized" ELSE "active"

\* the catch block, and the not-finalized branch whose throw it catches:
\* wait and go round again, or end with the error
Catch(r, e) ==
    IF CanRetry(r.attempt, r.maxRetries)
      THEN [r EXCEPT !.pc = "wait"]
      ELSE [r EXCEPT !.pc = "failed", !.error = e]

\* head of  for (let attempt = 1; attempt <= maxRetries; attempt++)  and the
\* throw after the loop
LoopHead ==
    /\ ret.pc = "loop"
    /\ IF LoopGuard(ret.attempt, ret.maxRetries)
         THEN ret' = [ret EXCEPT !.pc = "fetch"]
         ELSE ret' = [ret EXCEPT !.pc = "failed", !.error = LoopExitError]
    /\ UNCHANGED <<uploadVars, pinVars, libVars>>

\* getSessionMetadata and the status test.  The request fails when the service
\* is unavailable, and always for a session that does not exist.
FetchMetadata ==
    /\ ret.pc = "fetch"
    /\ \E out \in {"reply", "throw"} :
         /\ sessionStatus = "none" => out = "throw"
         /\ IF out = "throw"
              THEN ret' = Catch([ret EXCEPT !.seen = Append(@, [meta |-> "error",
                                                                dl |-> "none"])],
                                MetadataError)
              ELSE IF IsFinalized(ReportedStatus)
                THEN ret' = [ret EXCEPT !.pc = "download",
                                        !.seen = Append(@, [meta |-> ReportedStatus,
                                                            dl |-> "pending"])]
                ELSE ret' = Catch([ret EXCEPT !.seen = Append(@, [meta |-> ReportedStatus,
                                                                  dl |-> "none"])],
                                  NotFinalizedError)
    /\ UNCHANGED <<uploadVars, pinVars, libVars>>

\* the retryDelay timer fires: continue, attempt++
RetryDelay ==
    /\ ret.pc = "wait"
    /\ ret' = [ret EXCEPT !.pc = "loop", !.attempt = @ + 1, !.waits = @ + 1]
    /\ UNCHANGED <<uploadVars, pinVars, libVars>>

\* downloadSession returns the data or throws
DownloadSession ==
    /\ ret.pc = "download"
    /\ \E out \in {"reply", "throw"} :
         LET n == Len(ret.seen)
         IN  IF out = "reply"
               THEN ret' = [ret EXCEPT !.pc = "done", !.seen[n].dl = "ok"]
               ELSE ret' = Catch([ret EXCEPT !.seen[n].dl = "error"], DownloadError)
    /\ UNCHANGED <<uploadVars, pinVars, libVars>>

\* meanwhile the ledger executes a transaction of the session's uploader
UploaderLands ==
    /\ ret.pc \notin {"done", "failed"}
    /\ \E step \in {"create", "finalize"} : OnChainOk(step) /\ Effect(step)
    /\ UNCHANGED <<txs, callVars, sst, dispVars, chk, histVars, pinVars, ret, libVars>>

InitRetrieve ==
    /\ txs = <<>>
    /\ storageExists = TRUE
    /\ sessionStatus \in {"none", "active", "finalized"}
    /\ abandoned = [s \in Steps |-> 0]
    /\ landed = [s \in Steps |->
                   CASE s = "create"   -> IF sessionStatus = "none" THEN 0 ELSE 1
                     [] s = "finalize" -> IF sessionStatus = "finalized" THEN 1 ELSE 0
                     [] OTHER          -> 1]
    /\ pc = "idle"
    /\ useSequential = FALSE
    /\ hasInitTx = FALSE
    /\ signatures = <<>>
    /\ uploadError = NoError
    /\ initErr = NoError
    /\ sst = SstIdle
    /\ i = 0
    /\ batchSigs = <<>>
    /\ allSignatures = <<>>
    /\ finalSignatures = <<>>
    /\ toRetry = <<>>
    /\ attempt = 0
    /\ retrySignatures = <<>>
    /\ rpos = 0
    /\ chk = ChkIdle
    /\ observed = {}
    /\ classFailed = {}
    /\ rechecked = {}
    /\ PinIdle
    /\ LibIdle
    /\ \E max \in 0 .. MaxRetriesArg :
         ret = [RetNone EXCEPT !.pc = "loop", !.maxRetries = max, !.attempt = 1]

\* the steps of retrieveLargeData itself: each is the continuation of an await
\* (the retryDelay timer, or an HTTP request that answers or fails within the
\* client's 60 s timeout)
RetrieveStep == LoopHead \/ FetchMetadata \/ RetryDelay \/ DownloadSession

NextRetrieve ==
    \/ LoopHead
    \/ FetchMetadata
    \/ RetryDelay
    \/ DownloadSession
    \/ UploaderLands

SpecRetrieve == InitRetrieve /\ [][NextRetrieve]_vars

SpecRetrieveFair == SpecRetrieve /\ WF_vars(RetrieveStep)

(***************************************************************************)
(* Properties of the upload.                                               *)
(***************************************************************************)
\* chunk indices for which some confirmation call saw a confirmed transaction
ConfirmedChunks == {txs[s].chunk : s \in observed}

Unconfirmed == ChunkIdx \ ConfirmedChunks

\* the finalize transaction has just been handed to the ledger
FinalizeSubmitted == pc = "finalize" /\ sst.cur # "none"

\* C1: the finalize transaction is submitted only when every chunk index
\* 0..totalChunks-1 has a dispatched transaction that was observed confirmed.
C1_FinalizeOnlyAfterAllConfirmed ==
    FinalizeSubmitted => Unconfirmed = {}

\* the chunk dispatch has run to its end: it returned, or threw after its last
\* confirmation call (a throw of a send in the sequential strategy is not this case)
DispatchEnded == pc \in {"finalize", "done", "failed"} /\ uploadError.kind \in {"none", "chunks"}

\* C2: if a chunk index is still unconfirmed after the final retry round, the
\* upload call fails and the error it raises enumerates the unconfirmed indices.
C2_FailureNamesUnconfirmed ==
    (DispatchEnded /\ Unconfirmed # {}) =>
        (pc = "failed" /\ uploadError.kind = "chunks" /\ uploadError.named = Unconfirmed)

\* C3: in every retry round the chunk indices selected for re-dispatch are exactly
\* the chunk indices left without a confirmed transaction by the preceding round.
C3_RetryExactlyUnconfirmed ==
    pc \in {"p_retry_send", "s_retry_send"} => Range(toRetry) = Unconfirmed

\* transactions of chunk c that the ledger confirmed
ConfirmedTxs(c) == {s \in 1 .. Len(txs) : txs[s].chunk = c /\ txs[s].st = "confirmed"}

\* C4: when the session is finalized, exactly one of the transactions dispatched
\* for each chunk index, over the initial round and all retry rounds, is confirmed.
C4_ExactlyOneConfirmedPerChunk ==
    sessionStatus = "finalized" => \A c \in ChunkIdx : Cardinality(ConfirmedTxs(c)) = 1

C9_FinalizeFailureLeavesActive ==
    uploadError.kind = "finalize" =>
        (pc = "failed" /\ sessionStatus = "active")

\* C10: a signature classified confirmed is never re-checked and never reclassified
\* failed for the rest of the upload, the confirmation pass after a retry included.
C10_NeverRecheckedNorReclassified ==
    rechecked = {} /\ observed \cap classFailed = {}

(***************************************************************************)
(* Properties of storeData and readData.                                   *)
(***************************************************************************)
\* readData ran after storeData had posted every chunk to an active session
ReadAfterStore == readResult.status # "none" /\ readResult.afterStore /\ account = "active"

\* C5: for every non-empty payload, what readData rebuilds from the chunks storeData
\* posted is exactly the payload, with compression requested and without.
C5_RoundTrip ==
    (ReadAfterStore /\ payload # <<>>) => (readResult.status = "ok" /\ readResult.data = payload)

\* C6: a download acquires or returns chunk data only for a session whose status
\* is Finalized; for any other session it acquires nothing.
C6_ReadOnlyFinalized ==
    readResult.acquired > 0 => readResult.account = "finalized"

\* C7: a chunk transaction reaches the ledger only after the session was created,
\* i.e. when the session account exists.
C7_NoChunkBeforeSession ==
    posted # <<>> => account # "absent"

\* a readData call that found the session account has returned or thrown
ReadDone == readResult.status \notin {"none", "not_found"}

\* what the reader of the call makes of the transactions hist
ReadOf(hist) ==
    IF impl = "adapter" THEN AdapterRead(readResult.account, totalChunks, hist)
                        ELSE WriterRead(readResult.account, totalChunks, hist)

\* C18: the rebuilt payload is the same for every order in which the chunk
\* transactions of the session are fetched: the chunks are put in the order of the
\* index carried in their instruction data before they are concatenated.
C18_OrderInvariant ==
    ReadDone =>
        \A ord \in Permutations(1 .. Len(readResult.hist)) :
            LET r == ReadOf(Fetched(readResult.hist, ord))
            IN  r.status = readResult.status /\ r.data = readResult.data

\* a read that fetched two chunks of different content, the higher index first
C18_Witness ==
    /\ readResult.status = "ok"
    /\ Len(readResult.hist) >= 2
    /\ IxChunkIndex(readResult.hist[1].data) > IxChunkIndex(readResult.hist[2].data)
    /\ IxChunkData(readResult.hist[1].data) # IxChunkData(readResult.hist[2].data)

\* C19: when readData finds a number of chunks other than the total_chunks the
\* session account declares, it warns or fails; it does not return data as if
\* nothing were wrong.
C19_CountMismatchReported ==
    (readResult.status = "ok" /\ readResult.acquired # totalChunks) => readResult.warned

\* C20: the decoding steps of readData (base64 detection, then the 0x01 compression
\* header) give back a payload that was stored raw, without compression, unchanged.
C20_RawDataUnchanged ==
    (/\ impl = "adapter"
     /\ ~compression
     /\ ReadDone
     /\ payload # <<>>
     /\ Reassemble(readResult.hist) = payload)
        => (readResult.status = "ok" /\ readResult.data = payload)

\* storeData ran the compression pass over the payload: PinocchioAdapter calls
\* compressData when asked to, PinocchioWriter only puts the flag byte
CompressionApplied == impl = "adapter" /\ compression

StoreBegun == ppc # "start"

\* C21: the buffer storeData chunks starts with the one-byte compression marker
\* (0x01) exactly when the compression pass was applied to the payload.
C21_MarkerIffCompressed ==
    StoreBegun => ((finalData # <<>> /\ finalData[1] = 1) <=> CompressionApplied)

\* chunk indices that fill one, two, three and four bytes of the u32
ChunkIndexSamples == {0, 1, 255, 256, 65535, 65536, 16777216, 2147483647}

\* C22: parsing the instruction data postChunk built gives back the chunk index
\* and the chunk bytes that were put in, for the chunks storeData posts and for
\* chunk indices that need one to four bytes.
C22_InstructionRoundTrip ==
    /\ \A k \in 1 .. Len(posted) :
          /\ IsChunkIx(posted[k].data)
          /\ IxChunkIndex(posted[k].data) = k - 1
          /\ IxChunkData(posted[k].data) = Chunks[k]
    /\ (ppc = "post" /\ pidx = 0 /\ readResult = ReadNone) =>
          \A k \in 1 .. Len(Chunks), n \in ChunkIndexSamples :
              LET ix == InstructionData(sessionId, n, 0, Chunks[k])
              IN  IsChunkIx(ix) /\ IxChunkIndex(ix) = n /\ IxChunkData(ix) = Chunks[k]

\* two chunks posted, the second one shorter than the first
C22_Witness ==
    /\ Len(posted) >= 2
    /\ Len(Chunks[2]) < Len(Chunks[1])

ChunkSizeUsed == IF impl = "adapter" THEN PINOCCHIO_CHUNK_SIZE ELSE CHUNK_SIZE

\* C23: the number of chunks is ceil(encodedLength / chunkSize).
C23_ChunkCountIsCeil ==
    StoreBegun => Len(Chunks) = (Len(finalData) + ChunkSizeUsed - 1) \div ChunkSizeUsed

\* an encoded length that is not a multiple of the chunk size, more than one chunk
C23_Witness ==
    /\ StoreBegun
    /\ Len(finalData) % ChunkSizeUsed # 0
    /\ Len(Chunks) >= 2

\* C24: storeData never goes on with a zero-length payload: it has at least one
\* chunk to post and none of its chunks is empty.
C24_EmptyPayloadRejected ==
    StoreBegun /\ ppc # "store_failed" =>
        /\ payload # <<>>
        /\ Chunks # <<>>
        /\ \A k \in 1 .. Len(Chunks) : Chunks[k] # <<>>

(***************************************************************************)
(* Properties of checkConfirmationStatus.                                  *)
(***************************************************************************)
\* a confirmation call is in progress
InCheck == pc \in {"p_check", "p_retry_check", "s_check", "s_recheck"}

\* the pass the call makes next is its last one, and by the wait running out
TimingOut == InCheck /\ chk.polls + 1 = MaxPolls

\* the pass the call makes next is its last one: it returns ResultConfirmed, ResultFailed
Returning == InCheck /\ (Cardinality(Classify(chk)) = Len(chk.sigs) \/ TimingOut)

ResultConfirmed == ConfirmedSigs(chk.sigs, Classify(chk))

ResultFailed == FailedIdx(chk.sigs, Classify(chk))

\* the signatures the result lists as failed
ResultFailedSigs == {chk.sigs[j + 1] : j \in Range(ResultFailed)}

\* C11: in the result of a confirmation call no signature is reported both as
\* confirmed and as failed.
C11_ResultDisjoint ==
    Returning => Range(ResultConfirmed) \cap ResultFailedSigs = {}

\* C11 witness: a call returns a result with a confirmed and a failed signature
C11_Witness == Returning /\ ResultConfirmed # <<>> /\ ResultFailed # <<>>

\* C12: a signature whose status carries an error is failed at once: a call that
\* goes on polling still has a signature that is neither confirmed nor in error.
C12_NoWaitingOnErrored ==
    (InCheck /\ chk.polls >= 1) =>
        \E j \in 1 .. Len(chk.sigs) : j \notin chk.confirmed \cup chk.erred

\* C13: every signature still pending when the wait runs out is in the failed list
\* of the result.
C13_PendingAtTimeoutFailed ==
    TimingOut =>
        \A j \in 1 .. Len(chk.sigs) :
            txs[chk.sigs[j]].st = "pending" => (j - 1) \in Range(ResultFailed)

\* C13 witness: the wait runs out on a call with a pending signature
C13_Witness ==
    TimingOut /\ \E j \in 1 .. Len(chk.sigs) : txs[chk.sigs[j]].st = "pending"

\* C15: every polling round of a confirmation call issues exactly one status
\* query, whatever the number of signatures.
C15_OneQueryPerRound ==
    InCheck => chk.queries = chk.polls

\* C15 witness: a call on two or more signatures has made a round and polls on
C15_Witness == InCheck /\ chk.polls >= 1 /\ Len(chk.sigs) >= 2

(***************************************************************************)
(* Properties of the dispatch strategies.                                  *)
(***************************************************************************)
\* the round counter never passes the configured retry count, the sequential
\* strategy retries once, and no more transactions are submitted than the rounds allow
RetryRoundsBounded ==
    /\ attempt <= ChunkRetryRounds
    /\ Len(txs) <= NChunks * (1 + ChunkRetryRounds)
    /\ useSequential => Len(txs) <= 2 * NChunks

\* C14: the retry loop ends after a bounded number of rounds, however many chunks
\* keep failing: the rounds are bounded by the retry count and the dispatch
\* eventually returns or throws.
C14_RetryTerminates ==
    []RetryRoundsBounded /\ <>(pc \in {"finalize", "failed"})

\* C14 witness: every chunk failed in every round and the dispatch ended
C14_Witness ==
    /\ pc = "failed" /\ uploadError.kind = "chunks" /\ uploadError.count = NChunks
    /\ ~useSequential
    /\ Len(txs) = NChunks * (1 + ChunkRetryRounds)

\* chunk transactions submitted and not yet confirmed or failed
InFlight == {s \in 1 .. Len(txs) : txs[s].st = "pending"}

\* C16: the number of chunk transactions submitted but not yet confirmed never
\* exceeds one batch: one transaction in the sequential strategy, batchSize in the
\* batched-parallel one.
C16_InFlightAtMostOneBatch ==
    Cardinality(InFlight) <= (IF useSequential THEN 1 ELSE BatchSize)

\* C17: whichever strategy is selected, a dispatch that returns has submitted
\* every chunk of the list.
C17_EveryChunkSubmitted ==
    pc = "finalize" => \A c \in ChunkIdx : \E s \in 1 .. Len(txs) : txs[s].chunk = c

(***************************************************************************)
(* CogneeMemoryAdapter.storeMemory: storeLargeData(memoryData, true), then *)
(* one indexMemory call with the (memory_id, session_pubkey) entry.        *)
(***************************************************************************)
\* a storeMemory that goes on to the index while the finalize step is still running
UploadReturnedOrFinalizing == pc \in {"finalize", "done"}

\* await this.storage.storeLargeData(...) resolved
UploadReturned == pc = "done"

\* index.indexMemory(indexEntry) inside try/catch: LocalMemoryIndex sets the entry
\* and saves the file; a failure to save is only warned about.  storeMemory returns.
IndexMemory ==
    /\ mem.pc = "store"
    /\ UploadReturned
    /\ \E saved \in BOOLEAN :
         mem' = [pc |-> "returned", emits |-> mem.emits + 1, indexed |-> saved,
                 finalizedAtEmit |-> sessionStatus = "finalized" /\ landed["finalize"] >= 1]
    /\ UNCHANGED <<uploadVars, pinVars, ret, vecVars, gq, vs>>

\* storeLargeData threw: storeMemory has no catch around it
StoreMemoryThrows ==
    /\ mem.pc = "store"
    /\ pc = "failed"
    /\ mem' = [mem EXCEPT !.pc = "threw"]
    /\ UNCHANGED <<uploadVars, pinVars, ret, vecVars, gq, vs>>

\* storeMemory has serialised the memory and called storeLargeData(memoryData, true)
InitStoreMemory ==
    /\ UploadStart
    /\ useSequential = TRUE
    /\ PinIdle
    /\ RetrieveIdle
    /\ mem = [MemNone EXCEPT !.pc = "store"]
    /\ table = {}
    /\ vec = VecNone
    /\ gq = GqNone
    /\ vs = VsNone

\* storeMemory always uploads sequentially
NextStoreMemory ==
    \/ \E step \in Steps : SimulateAndSend(step)
    \/ \E step \in Steps : PollStatus(step)
    \/ \E step \in Steps : LedgerProcessCur(step)
    \/ \E step \in Steps : LedgerProcessAbandoned(step)
    \/ \E s \in 1 .. Len(txs) : LedgerConfirmChunk(s)
    \/ \E s \in 1 .. Len(txs) : LedgerFailChunk(s)
    \/ SeqSendOk
    \/ SeqSendThrow
    \/ SeqRetrySendOk
    \/ PollConfirmations
    \/ IndexMemory
    \/ StoreMemoryThrows

SpecStoreMemory == InitStoreMemory /\ [][NextStoreMemory]_vars

(***************************************************************************)
(* OnChainVectorAdapter.createDataPoints.  Names are sequences of          *)
(* characters; the reference row keeps a prefix of the collection name and *)
(* of the id.                                                              *)
(***************************************************************************)
\* data points in one createDataPoints call
MaxPoints == 1
\* collectionName.substring(0, 8)
CollectionPrefixLen == 8
\* id.substring(0, 10)
IdPrefixLen == 10

\* str.substring(0, n)
Substring0(str, n) == SubSeq(str, 1, IF Len(str) < n THEN Len(str) ELSE n)

CollectionNames ==
    { <<"e","n","t","i","t","i","e","s">>,
      <<"e","n","t","i","t","i","e","s","_","v","2">>,
      <<"d","o","c","s">> }

DataPointIds ==
    { <<"m","e","m","o","r","y","_","0","0","0","1">>,
      <<"m","e","m","o","r","y","_","0","0","0","2">>,
      <<"n","o","t","e","1">> }

\* getCollectionReferences: the rows whose c column is the collection's prefix
getCollectionReferences(rows, collectionName) ==
    {r \in rows : r.c = Substring0(collectionName, CollectionPrefixLen)}

\* idExists: some row of the collection carries the id's prefix
idExists(rows, collectionName, id) ==
    LET refs == getCollectionReferences(rows, collectionName)
    IN  \E r \in refs : r.i = Substring0(id, IdPrefixLen)

\* the reference written for a data point; `of` remembers the data point whose
\* full data the session holds
minimalRef(collectionName, id) ==
    [c  |-> Substring0(collectionName, CollectionPrefixLen),
     i  |-> Substring0(id, IdPrefixLen),
     of |-> <<collectionName, id>>]

\* the loop over dataPoints from position k: storeLargeData or writeRow throws
\* for the data point at position failAt (0: for none), and that ends the call
RECURSIVE CreateLoop(_, _, _, _, _, _)
CreateLoop(rows, collectionName, dataPoints, failAt, k, wrote) ==
    IF k > Len(dataPoints) THEN [rows |-> rows, wrote |-> wrote, pc |-> "returned"]
    ELSE IF idExists(rows, collectionName, dataPoints[k])
         THEN CreateLoop(rows, collectionName, dataPoints, failAt, k + 1, Append(wrote, FALSE))
    ELSE IF k = failAt
         THEN [rows |-> rows, wrote |-> Append(wrote, FALSE), pc |-> "threw"]
    ELSE CreateLoop(rows \cup {minimalRef(collectionName, dataPoints[k])},
                    collectionName, dataPoints, failAt, k + 1, Append(wrote, TRUE))

createDataPoints ==
    \E collectionName \in CollectionNames, n \in 0 .. MaxPoints :
      \E dataPoints \in [1 .. n -> DataPointIds], failAt \in 0 .. n :
        LET r == CreateLoop(table, collectionName, dataPoints, failAt, 1, <<>>)
        IN  /\ table' = r.rows
            /\ vec' = [pc |-> r.pc, collection |-> collectionName,
                       dataPoints |-> dataPoints, before |-> table, wrote |-> r.wrote]
    /\ UNCHANGED <<uploadVars, pinVars, ret, memVars, gq, vs>>

InitVector ==
    /\ UploadIdle
    /\ PinIdle
    /\ RetrieveIdle
    /\ LibIdle

NextVector == createDataPoints

SpecVector == InitVector /\ [][NextVector]_vars

(***************************************************************************)
(* GraphQueryEngine: loadGraph and the queries on the loaded graph.  The   *)
(* adjacency list of a node holds its outgoing edges in the order of the   *)
(* edges argument of loadGraph.                                            *)
(***************************************************************************)
\* edges in the list given to loadGraph
MaxEdges == 4
\* largest finite maxDepth asked of a traversal
MaxDepth == 2
\* the maxDepth getConnectedComponents passes
Infinity == 2147483647

NodeIds == {"A", "B", "C", "D"}

\* the node lists loadGraph is given
NodeLists == { <<"A", "B", "C", "D">>, <<"D", "C", "B", "A">>, <<"B", "A", "D", "C">> }

Edge(src, dst, rel) == [sourceNodeId |-> src, targetNodeId |-> dst, relationshipName |-> rel]

\* the edges a loaded graph is made of
EdgeChoices ==
    { Edge("A", "B", "rel1"), Edge("B", "C", "rel1"), Edge("A", "C", "rel2"),
      Edge("C", "D", "rel1"), Edge("D", "B", "rel2") }

\* the edge lists loadGraph is given: up to MaxEdges different edges in any order
EdgeLists ==
    UNION { {l \in [1 .. n -> EdgeChoices] : \A a, b \in 1 .. n : a # b => l[a] # l[b]}
            : n \in 0 .. MaxEdges }

\* the relationshipFilter argument: left out, or a list of names
Filters ==
    { [given |-> FALSE, names |-> {}],
      [given |-> TRUE, names |-> {"rel1"}],
      [given |-> TRUE, names |-> {"rel2"}] }

\* this.edges.get(nodeId) || []
getOutgoingEdges(edges, nodeId) == SelectSeq(edges, LAMBDA e : e.sourceNodeId = nodeId)

\* the elements of a list in the order of their first occurrence
RECURSIVE Distinct(_)
Distinct(l) ==
    IF l = <<>> THEN <<>>
    ELSE LET front == Distinct(SubSeq(l, 1, Len(l) - 1))
         IN  IF \E k \in 1 .. Len(front) : front[k] = l[Len(l)]
             THEN front ELSE Append(front, l[Len(l)])

\* getNeighbors(nodeId, 'outgoing')
getNeighborsOutgoing(edges, nodeId) ==
    LET out == getOutgoingEdges(edges, nodeId)
    IN  Distinct([k \in 1 .. Len(out) |-> out[k].targetNodeId])

\* a traversal that follows every edge, whatever the filter
PassesAll(relationshipFilter, edge) == TRUE

\* !relationshipFilter || relationshipFilter.includes(edge.relationshipName)
Passes(relationshipFilter, edge) ==
    ~relationshipFilter.given \/ edge.relationshipName \in relationshipFilter.names

\* depth < maxDepth
DepthBelow(depth, maxDepth) == depth < maxDepth

\* the queue entries bfsTraverse pushes for the edges of a node
BfsPushes(out, depth, visited, relationshipFilter) ==
    LET keep == SelectSeq(out, LAMBDA e : Passes(relationshipFilter, e)
                                          /\ e.targetNodeId \notin visited)
    IN  [k \in 1 .. Len(keep) |-> [nodeId |-> keep[k].targetNodeId, depth |-> depth + 1]]

\* the while loop of bfsTraverse
RECURSIVE BfsLoop(_, _, _, _, _)
BfsLoop(edges, queue, visited, maxDepth, relationshipFilter) ==
    IF queue = <<>> THEN visited
    ELSE LET head == Head(queue)
             rest == Tail(queue)
         IN  IF head.nodeId \in visited
             THEN BfsLoop(edges, rest, visited, maxDepth, relationshipFilter)
             ELSE LET seen == visited \cup {head.nodeId}
                  IN  IF DepthBelow(head.depth, maxDepth)
                      THEN BfsLoop(edges,
                                   rest \o BfsPushes(getOutgoingEdges(edges, head.nodeId),
                                                     head.depth, seen, relationshipFilter),
                                   seen, maxDepth, relationshipFilter)
                      ELSE BfsLoop(edges, rest, seen, maxDepth, relationshipFilter)

bfsTraverse(edges, startNodeId, maxDepth, relationshipFilter) ==
    BfsLoop(edges, <<[nodeId |-> startNodeId, depth |-> 0]>>, {}, maxDepth, relationshipFilter)

\* the inner function dfs of dfsTraverse, and its loop over the edges of a node
RECURSIVE DfsVisit(_, _, _, _, _, _)
RECURSIVE DfsEdges(_, _, _, _, _, _, _)
DfsVisit(edges, nodeId, depth, visited, maxDepth, relationshipFilter) ==
    IF nodeId \in visited \/ depth > maxDepth THEN visited
    ELSE IF DepthBelow(depth, maxDepth)
         THEN DfsEdges(edges, getOutgoingEdges(edges, nodeId), 1, depth,
                       visited \cup {nodeId}, maxDepth, relationshipFilter)
         ELSE visited \cup {nodeId}

DfsEdges(edges, out, k, depth, visited, maxDepth, relationshipFilter) ==
    IF k > Len(out) THEN visited
    ELSE DfsEdges(edges, out, k + 1, depth,
                  IF Passes(relationshipFilter, out[k])
                  THEN DfsVisit(edges, out[k].targetNodeId, depth + 1, visited,
                                maxDepth, relationshipFilter)
                  ELSE visited,
                  maxDepth, relationshipFilter)

dfsTraverse(edges, startNodeId, maxDepth, relationshipFilter) ==
    DfsVisit(edges, startNodeId, 0, {}, maxDepth, relationshipFilter)

\* findShortestPath returns null
NoPath == <<>>

\* the while loop of findShortestPath
RECURSIVE PathLoop(_, _, _, _)
PathLoop(edges, queue, visited, endNodeId) ==
    IF queue = <<>> THEN NoPath
    ELSE LET head == Head(queue)
             rest == Tail(queue)
         IN  IF head.nodeId = endNodeId THEN head.path
             ELSE IF head.nodeId \in visited THEN PathLoop(edges, rest, visited, endNodeId)
             ELSE LET seen == visited \cup {head.nodeId}
                      next == SelectSeq(getNeighborsOutgoing(edges, head.nodeId),
                                        LAMBDA n : n \notin seen)
                  IN  PathLoop(edges,
                               rest \o [k \in 1 .. Len(next) |->
                                           [nodeId |-> next[k], path |-> Append(head.path, next[k])]],
                               seen, endNodeId)

findShortestPath(edges, startNodeId, endNodeId) ==
    PathLoop(edges, <<[nodeId |-> startNodeId, path |-> <<startNodeId>>]>>, {}, endNodeId)

\* getConnectedComponents: the loop over this.nodes.keys() from position k
RECURSIVE ComponentsLoop(_, _, _, _, _)
ComponentsLoop(nodes, edges, k, visited, components) ==
    IF k > Len(nodes) THEN components
    ELSE IF nodes[k] \in visited
         THEN ComponentsLoop(nodes, edges, k + 1, visited, components)
    ELSE LET component == bfsTraverse(edges, nodes[k], Infinity, [given |-> FALSE, names |-> {}])
         IN  ComponentsLoop(nodes, edges, k + 1, visited \cup component,
                            Append(components, component))

getConnectedComponents(nodes, edges) == ComponentsLoop(nodes, edges, 1, {}, <<>>)

loadGraph ==
    /\ gq.pc = "idle"
    /\ \E nodes \in NodeLists, edges \in EdgeLists :
         gq' = [gq EXCEPT !.pc = "loaded", !.nodes = nodes, !.edges = edges]
    /\ UNCHANGED <<uploadVars, pinVars, ret, memVars, vecVars, vs>>

BfsTraverse ==
    /\ gq.pc = "loaded"
    /\ \E startNodeId \in NodeIds, maxDepth \in 0 .. MaxDepth, relationshipFilter \in Filters :
         gq' = [gq EXCEPT !.pc = "bfs", !.startNodeId = startNodeId, !.maxDepth = maxDepth,
                          !.relationshipFilter = relationshipFilter,
                          !.visited = bfsTraverse(gq.edges, startNodeId, maxDepth,
                                                  relationshipFilter)]
    /\ UNCHANGED <<uploadVars, pinVars, ret, memVars, vecVars, vs>>

DfsTraverse ==
    /\ gq.pc = "loaded"
    /\ \E startNodeId \in NodeIds, maxDepth \in 0 .. MaxDepth, relationshipFilter \in Filters :
         gq' = [gq EXCEPT !.pc = "dfs", !.startNodeId = startNodeId, !.maxDepth = maxDepth,
                          !.relationshipFilter = relationshipFilter,
                          !.visited = dfsTraverse(gq.edges, startNodeId, maxDepth,
                                                  relationshipFilter)]
    /\ UNCHANGED <<uploadVars, pinVars, ret, memVars, vecVars, vs>>

FindShortestPath ==
    /\ gq.pc = "loaded"
    /\ \E startNodeId \in NodeIds, endNodeId \in NodeIds :
         gq' = [gq EXCEPT !.pc = "path", !.startNodeId = startNodeId, !.endNodeId = endNodeId,
                          !.path = findShortestPath(gq.edges, startNodeId, endNodeId)]
    /\ UNCHANGED <<uploadVars, pinVars, ret, memVars, vecVars, vs>>

GetStats ==
    /\ gq.pc = "loaded"
    /\ gq' = [gq EXCEPT !.pc = "stats",
                        !.componentCount = Len(getConnectedComponents(gq.nodes, gq.edges))]
    /\ UNCHANGED <<uploadVars, pinVars, ret, memVars, vecVars, vs>>

InitGraph ==
    /\ UploadIdle
    /\ PinIdle
    /\ RetrieveIdle
    /\ LibIdle

NextGraph ==
    \/ loadGraph
    \/ BfsTraverse
    \/ DfsTraverse
    \/ FindShortestPath
    \/ GetStats

SpecGraph == InitGraph /\ [][NextGraph]_vars

(***************************************************************************)
(* VectorSearchEngine.search over the cached vectors.  A similarity is     *)
(* kept exactly, as the fraction num / den that is the square of the       *)
(* cosine with the sign of the cosine: it orders as the cosine does.       *)
(***************************************************************************)
\* vectors in the cache
MaxVectors == 4

\* the embeddings: unit vectors, a diagonal, an opposite and the zero vector
Embeddings == { <<1, 0>>, <<0, 1>>, <<1, 1>>, <<-1, 0>>, <<0, 0>> }

\* the queryVector argument
QueryVectors == { <<1, 0>>, <<1, 1>> }

\* the threshold argument: -1, the default 0.0, and 0.5
Thresholds == { [num |-> -1, den |-> 1], [num |-> 0, den |-> 1], [num |-> 1, den |-> 4] }

RECURSIVE Dot(_, _, _)
Dot(a, b, k) == IF k > Len(a) THEN 0 ELSE a[k] * b[k] + Dot(a, b, k + 1)

\* dotProduct / (sqrt(normA) * sqrt(normB)), and 0 when the denominator is 0
cosineSimilarity(a, b) ==
    LET dotProduct == Dot(a, b, 1)
        normA == Dot(a, a, 1)
        normB == Dot(b, b, 1)
    IN  IF normA * normB = 0 THEN [num |-> 0, den |-> 1]
        ELSE [num |-> IF dotProduct < 0 THEN 0 - dotProduct * dotProduct
                      ELSE dotProduct * dotProduct,
              den |-> normA * normB]

\* x >= y on similarities
AtLeast(x, y) == x.num * y.den >= y.num * x.den

\* a comparator that sorts ascending: a.score - b.score > 0
ComesAfterAscending(a, b) == ~AtLeast(b.score, a.score)

\* the comparator of the sort puts b before a: b.score - a.score > 0
ComesAfter(a, b) == ~AtLeast(a.score, b.score)

\* the results pushed in the loop over nodeIdToVector.entries() from position k
RECURSIVE Matching(_, _, _, _)
Matching(entries, queryArray, threshold, k) ==
    IF k > Len(entries) THEN <<>>
    ELSE LET similarity == cosineSimilarity(queryArray, entries[k].vector)
             rest == Matching(entries, queryArray, threshold, k + 1)
         IN  IF AtLeast(similarity, threshold)
             THEN <<[nodeId |-> entries[k].nodeId, score |-> similarity]>> \o rest
             ELSE rest

\* one element put into a sorted list behind the elements it does not come before
RECURSIVE InsertSorted(_, _)
InsertSorted(sorted, r) ==
    IF sorted = <<>> THEN <<r>>
    ELSE IF ComesAfter(sorted[Len(sorted)], r)
         THEN Append(InsertSorted(SubSeq(sorted, 1, Len(sorted) - 1), r), sorted[Len(sorted)])
         ELSE Append(sorted, r)

\* results.sort((a, b) => b.score - a.score): a stable sort
RECURSIVE Sort(_)
Sort(results) ==
    IF results = <<>> THEN <<>>
    ELSE InsertSorted(Sort(SubSeq(results, 1, Len(results) - 1)), results[Len(results)])

\* results.slice(0, limit)
Slice0(results, limit) == SubSeq(results, 1, IF limit < Len(results) THEN limit ELSE Len(results))

search(entries, queryVector, limit, threshold) ==
    Slice0(Sort(Matching(entries, queryVector, threshold, 1)), limit)

\* loadVectors: the vectors that could be read are cached under their node ids
loadVectors ==
    /\ vs.pc = "idle"
    /\ \E n \in 0 .. MaxVectors :
         \E vectors \in [1 .. n -> Embeddings] :
            vs' = [vs EXCEPT !.pc = "loaded",
                             !.nodeIdToVector = [k \in 1 .. n |->
                                                    [nodeId |-> k, vector |-> vectors[k]]]]
    /\ UNCHANGED <<uploadVars, pinVars, ret, memVars, vecVars, gq>>

Search ==
    /\ vs.pc = "loaded"
    /\ \E queryVector \in QueryVectors, limit \in 0 .. MaxVectors + 1, threshold \in Thresholds :
         vs' = [vs EXCEPT !.pc = "searched", !.queryVector = queryVector, !.limit = limit,
                          !.threshold = threshold,
                          !.results = search(vs.nodeIdToVector, queryVector, limit, threshold)]
    /\ UNCHANGED <<uploadVars, pinVars, ret, memVars, vecVars, gq>>

InitSearch ==
    /\ UploadIdle
    /\ PinIdle
    /\ RetrieveIdle
    /\ LibIdle

NextSearch ==
    \/ loadVectors
    \/ Search

SpecSearch == InitSearch /\ [][NextSearch]_vars

(***************************************************************************)
(* Properties of retrieveLargeData.                                        *)
(***************************************************************************)
\* the retrieve call returned or threw
RetrieveEnded == ret.pc \in {"done", "failed"}

\* metadata fetches made so far: one per attempt begun
Fetches == Len(ret.seen)

\* C26: when the metadata says active on one attempt and finalized on a later one,
\* the call has waited retryDelay before each re-fetch, goes on to the download in
\* that later attempt, and returns the data from it without an error.
C26_SucceedsOnceFinalized ==
    \A j \in 1 .. Fetches :
        (ret.seen[j].meta = "finalized" /\ \E k \in 1 .. j - 1 : ret.seen[k].meta = "active")
            => /\ ret.seen[j].dl # "none"
               /\ ret.waits >= j - 1
               /\ ret.seen[j].dl = "ok" =>
                     (ret.pc = "done" /\ ret.attempt = j /\ ret.error = <<>>)

\* active on the first attempt, finalized on the second, data returned
C26_Witness ==
    /\ ret.pc = "done"
    /\ Fetches = 2
    /\ ret.seen[1].meta = "active"
    /\ ret.seen[2] = [meta |-> "finalized", dl |-> "ok"]

\* at most maxRetries fetches, a retryDelay wait between each two and none besides
FetchesBounded ==
    /\ Fetches <= ret.maxRetries
    /\ RetrieveEnded => ret.waits = (IF Fetches = 0 THEN 0 ELSE Fetches - 1)
    /\ ret.pc = "done" => ret.error = <<>>
    /\ ret.pc = "failed" => ret.error # <<>>

\* C27: a retrieve call makes at most maxRetries metadata fetches, separated by
\* retryDelay, and then ends with the data or with an error.
C27_RetrieveTerminates ==
    []FetchesBounded /\ <>RetrieveEnded

\* every attempt used, each but the last followed by a wait, and the call failed
C27_Witness ==
    /\ ret.pc = "failed"
    /\ ret.maxRetries >= 2
    /\ Fetches = ret.maxRetries
    /\ ret.waits = ret.maxRetries - 1

\* the message of e holds the session handle
NamesSession(e) == \E k \in 1 .. Len(e) : e[k] = "sessionPubkey"

\* C28: the error a retrieve call ends with after its last attempt names the
\* session handle.
C28_TerminalErrorNamesSession ==
    ret.pc = "failed" => NamesSession(ret.error)

(***************************************************************************)
(* Properties of the signatures list storeLargeData returns.               *)
(***************************************************************************)
\* the signatures of the list that are chunk signatures
ListedChunkSigs == {signatures[k].id : k \in {j \in 1 .. Len(signatures) : signatures[j].k = "chunk"}}

\* C29: the signatures list of a finished upload holds every signature used
\* during the upload, those of chunk transactions that failed and were retried
\* included.
C29_AllSignaturesListed ==
    pc = "done" => \A s \in 1 .. Len(txs) : s \in ListedChunkSigs

\* every chunk was sent, and exactly one of them a second time
OneChunkRetried ==
    /\ Len(txs) = NChunks + 1
    /\ \A c \in ChunkIdx : \E s \in 1 .. Len(txs) : txs[s].chunk = c

\* C30: when an upload of N chunks succeeds after one chunk timed out and was
\* retried, the signatures list has N + 1 entries: one confirmed signature per
\* chunk and the finalize signature.
C30_LengthIsChunksPlusFinalize ==
    (pc = "done" /\ OneChunkRetried) => Len(signatures) = NChunks + 1

(***************************************************************************)
(* Properties of the send loop of signAndSendTransactionsParallel.         *)
(***************************************************************************)
\* the send loop of the parallel strategy is over and nothing was retried yet
InitialRoundOver == pc = "p_check"

\* batches the send loop went through: i advanced by BatchSize for each
BatchesDispatched == i \div BatchSize

\* C31: the parallel strategy dispatches n chunk transactions in exactly
\* ceil(n / batchSize) batches, and every transaction is submitted in exactly one
\* batch of the initial round.
C31_BatchesCoverEveryChunkOnce ==
    InitialRoundOver =>
        /\ BatchesDispatched = (NChunks + BatchSize - 1) \div BatchSize
        /\ \A c \in ChunkIdx : Cardinality({s \in 1 .. Len(txs) : txs[s].chunk = c}) = 1

PointsOf(rows) == {r.of : r \in rows}

\* the data points present when the call reaches position k of its argument
PresentAt(k) ==
    PointsOf(vec.before)
        \cup {<<vec.collection, vec.dataPoints[j]>> : j \in {j \in 1 .. k - 1 : vec.wrote[j]}}

\* C33: in a createDataPoints call that returns, a data point is stored if and
\* only if no data point with the same id is already in the same collection.
C33_StoredIffNew ==
    vec.pc = "returned" =>
        \A k \in 1 .. Len(vec.dataPoints) :
            vec.wrote[k] <=> <<vec.collection, vec.dataPoints[k]>> \notin PresentAt(k)

(***************************************************************************)
(* Properties of the graph queries.                                        *)
(***************************************************************************)
\* the two ends of the edges of a list, direction forgotten
Linked(edges, a, b) ==
    \E k \in 1 .. Len(edges) :
        \/ edges[k].sourceNodeId = a /\ edges[k].targetNodeId = b
        \/ edges[k].sourceNodeId = b /\ edges[k].targetNodeId = a

\* the nodes within k edges of a set of nodes, direction forgotten
RECURSIVE Around(_, _, _)
Around(edges, S, k) ==
    IF k = 0 THEN S
    ELSE Around(edges, S \cup {n \in NodeIds : \E m \in S : Linked(edges, m, n)}, k - 1)

\* the number of edges between two connected nodes, direction forgotten
Distance(edges, a, b) ==
    CHOOSE k \in 0 .. Cardinality(NodeIds) :
        /\ b \in Around(edges, {a}, k)
        /\ \A j \in 0 .. k - 1 : b \notin Around(edges, {a}, j)

Connected(edges, a, b) == b \in Around(edges, {a}, Cardinality(NodeIds))

\* C34: findShortestPath returns a path with the fewest edges when the two nodes
\* are connected by edges, whatever the direction of the edges, and null when
\* they are not connected.
C34_ShortestPathWhenConnected ==
    gq.pc = "path" =>
        IF Connected(gq.edges, gq.startNodeId, gq.endNodeId)
        THEN /\ gq.path # NoPath
             /\ Len(gq.path) - 1 = Distance(gq.edges, gq.startNodeId, gq.endNodeId)
        ELSE gq.path = NoPath

\* the connected components of the loaded graph
Components(nodes, edges) ==
    {Around(edges, {nodes[k]}, Cardinality(NodeIds)) : k \in 1 .. Len(nodes)}

\* C35: the componentCount of getStats is the number of connected components of
\* the loaded graph, whatever the order of the node list.
C35_ComponentCount ==
    gq.pc = "stats" => gq.componentCount = Cardinality(Components(gq.nodes, gq.edges))

\* the nodes reached from a set of nodes along at most k outgoing edges that pass the filter
RECURSIVE ReachWithin(_, _, _, _)
ReachWithin(edges, S, k, relationshipFilter) ==
    IF k = 0 THEN S
    ELSE ReachWithin(edges,
                     S \cup {edges[j].targetNodeId :
                                j \in {j \in 1 .. Len(edges) :
                                          /\ edges[j].sourceNodeId \in S
                                          /\ \/ ~relationshipFilter.given
                                             \/ edges[j].relationshipName
                                                    \in relationshipFilter.names}},
                     k - 1, relationshipFilter)

\* C36: bfsTraverse returns exactly the nodes reachable from the start node along
\* at most maxDepth outgoing edges whose relationship name the filter admits.
C36_BfsReachableWithinDepth ==
    gq.pc = "bfs" =>
        gq.visited = ReachWithin(gq.edges, {gq.startNodeId}, gq.maxDepth, gq.relationshipFilter)

\* a filtered traversal to the depth limit that leaves out a node of the graph
\* and goes beyond the start node
C36_Witness ==
    /\ gq.pc = "bfs"
    /\ gq.maxDepth = MaxDepth
    /\ gq.relationshipFilter.given
    /\ Cardinality(gq.visited) >= 3
    /\ gq.visited # bfsTraverse(gq.edges, gq.startNodeId, gq.maxDepth, [given |-> FALSE, names |-> {}])
    /\ gq.visited # bfsTraverse(gq.edges, gq.startNodeId, Infinity, gq.relationshipFilter)

\* C40: dfsTraverse returns the set of nodes bfsTraverse returns for the same
\* start node, maxDepth and relationship filter.
C40_DfsSameAsBfs ==
    gq.pc = "dfs" =>
        gq.visited = bfsTraverse(gq.edges, gq.startNodeId, gq.maxDepth, gq.relationshipFilter)

(***************************************************************************)
(* Properties of search.                                                   *)
(***************************************************************************)
\* the cached nodes whose similarity to the query is at least the threshold
Eligible ==
    {k \in 1 .. Len(vs.nodeIdToVector) :
        AtLeast(cosineSimilarity(vs.queryVector, vs.nodeIdToVector[k].vector), vs.threshold)}

Returned == {vs.results[k].nodeId : k \in 1 .. Len(vs.results)}

\* C37: search returns the limit highest-scoring cached vectors among those whose
\* similarity is at least the threshold (all of them when they are fewer), each
\* once and with its similarity, in non-increasing order of score.
C37_TopKSortedAboveThreshold ==
    vs.pc = "searched" =>
        /\ Len(vs.results) = (IF vs.limit < Cardinality(Eligible) THEN vs.limit
                              ELSE Cardinality(Eligible))
        /\ Cardinality(Returned) = Len(vs.results)
        /\ Returned \subseteq Eligible
        /\ \A k \in 1 .. Len(vs.results) :
               vs.results[k].score
                   = cosineSimilarity(vs.queryVector, vs.nodeIdToVector[vs.results[k].nodeId].vector)
        /\ \A k \in 1 .. Len(vs.results) - 1 :
               AtLeast(vs.results[k].score, vs.results[k + 1].score)
        /\ \A k \in 1 .. Len(vs.results), n \in Eligible \ Returned :
               AtLeast(vs.results[k].score,
                       cosineSimilarity(vs.queryVector, vs.nodeIdToVector[n].vector))

\* a search that cuts the eligible vectors down to the limit, leaves one out for
\* the threshold, and returns scores that differ
C37_Witness ==
    /\ vs.pc = "searched"
    /\ vs.limit >= 2
    /\ Cardinality(Eligible) > vs.limit
    /\ Cardinality(Eligible) < Len(vs.nodeIdToVector)
    /\ vs.results[1].score # vs.results[Len(vs.results)].score

(***************************************************************************)
(* Properties of readData on an address other senders post to.             *)
(***************************************************************************)
\* the transactions whose chunk data the chunk map holds when the loop ends
Contributing(hist) ==
    {k \in 1 .. Len(hist) :
        /\ IsChunkIx(hist[k].data)
        /\ \A j \in k + 1 .. Len(hist) :
               ~(IsChunkIx(hist[j].data) /\ IxChunkIndex(hist[j].data) = IxChunkIndex(hist[k].data))}

\* C38: a chunk instruction contributes to what readData rebuilds only if the
\* session id it carries is the session id recorded in the session account read.
C38_OnlyOwnSessionChunks ==
    (readResult.status = "ok" /\ payload # <<>>) =>
        \A k \in Contributing(readResult.hist) :
            IxSessionId(readResult.hist[k].data) = RecordedSessionId

====
